---- MODULE Spec2Model ----
(***************************************************************************)
(* The Store aggregate root of ts-threads (packages/store): the write lock, *)
(* handler -> encode -> dispatch -> reduce -> batch commit, registerSchema  *)
(* and close, as interleaved asynchronous invocations on one store.        *)
(* Every await of the source is a point where another invocation may run.  *)
(* reduce calls batch.commit() without awaiting the promise it returns, so  *)
(* the batch is applied by the datastore at some later point: pending holds *)
(* the batches handed over and CommitLand applies the oldest.               *)
(*                                                                         *)
(* Five specifications share the variables:                                *)
(*   Spec          the write path, registerSchema and close                *)
(*   SpecLife      start(), threadID(), registerSchema, registerSchemas()  *)
(*                 and the process restarting over the same datastore      *)
(*   SpecDispatch  the dispatcher with several subscribers                 *)
(*   SpecBook      the peer address book: put, time and expiry             *)
(*   SpecFrame     registerSchema, then start(), then direct reduce calls  *)
(* Each leaves the variables of the others as Init sets them.              *)
(***************************************************************************)
EXTENDS Integers, Sequences, FiniteSets, TLC

\* ---------------------------------------------------------------- bounds
MaxBatch == 3
MaxPending == 2
\* the workloads a run may be given: a number of actions/events to submit, of
\* registerSchema calls, of close calls and of datastore.get failures other
\* than Not Found. The first is the write path alone; the second puts one
\* single-action call, which may meet a failing get, beside registerSchema
\* and close.
DataEvents == 3
LockRegisters == 2
LockCloses == 1

\* the lifecycle runs: start() calls, process restarts and registerSchema calls
MaxStarts == 2
MaxRestarts == 1
LifeRegisters == 1

\* the dispatcher runs: dispatch calls and the events of one call
MaxDispatches == 2
MaxDispatchBatch == 2
\* the address book runs: put calls, the addresses of one call, the ttl values
\* and the time that passes
MaxPuts == 2
MaxAddrs == 2
MaxTTL == 2
MaxClock == 2

Workloads ==
  {[events |-> DataEvents, registers |-> 0, closes |-> 0, faults |-> 0],
   [events |-> 1, registers |-> LockRegisters, closes |-> LockCloses, faults |-> 1]}

LifeWorkload == [events |-> 0, registers |-> LifeRegisters, closes |-> 0, faults |-> 0]

NoWorkload == [events |-> 0, registers |-> 0, closes |-> 0, faults |-> 0]

\* start() calls, restarts and failures of datastore.get(threadKey) other than
\* Not Found that a lifecycle run may see
LifeBudget == [starts |-> MaxStarts, restarts |-> MaxRestarts, faults |-> 1]

\* ---------------------------------------------------------------- values
None == "none"
Absent == <<>>
Unread == <<0>>
E1 == <<1, 1>>
E2 == <<2, 1>>
Fields == 1..2

Names == {"Person", "Dog"}
EventCollections == {"Person"}
EntityIDs == {"e1", "e2"}

Handlers == {"h1", "h2"}
Remotes == {"r1"}
Registrars == {"s1"}
Closers == {"c1"}
Reducers == Handlers \cup Remotes
Lockers == Handlers \cup Registrars \cup Closers
Procs == Reducers \cup Registrars \cup Closers
Starters == {"t1", "t2"}
Subscribers == {"store", "view"}
Putters == {"b1"}
AddrOrder == <<"a1", "a2">>
Addrs == {AddrOrder[j] : j \in 1..Len(AddrOrder)}
TTLs == 0..MaxTTL

\* Key layout
threadKey == <<"store", "threadid">>
SchemaKey(name) == <<"store", "schema", name>>
RegisterKey(name) == <<"store", name>>
CollectionKey(c, id) == <<"collection", c, id>>
EntityKeys == {CollectionKey(c, id) : c \in EventCollections, id \in EntityIDs}
StoreKeys == {threadKey} \cup {SchemaKey(n) : n \in Names} \cup {RegisterKey(n) : n \in Names}
AllKeys == EntityKeys \cup StoreKeys

KeyOf(e) == CollectionKey(e.collection, e.entityID)

\* ---------------------------------------------------------------- codec
\* the actions drawn as inputs: every type on entity e1, Create on entity e2
ActionInputs ==
  {[type |-> "Create", collection |-> c, entityID |-> id, previous |-> Absent, current |-> E1] :
      c \in EventCollections, id \in EntityIDs}
  \cup {[type |-> "Save", collection |-> c, entityID |-> "e1", previous |-> E1, current |-> E2] :
      c \in EventCollections}
  \cup {[type |-> "Delete", collection |-> c, entityID |-> "e1", previous |-> Absent, current |-> Absent] :
      c \in EventCollections}
  \cup {[type |-> "Other", collection |-> c, entityID |-> "e1", previous |-> Absent, current |-> Absent] :
      c \in EventCollections}

\* structural patch between two entity representations: 0 keeps a field
Compare(previous, current) ==
  [f \in Fields |-> IF previous[f] = current[f] THEN 0 ELSE current[f]]

ApplyPatch(state, patch) ==
  LET base == IF state = Absent THEN <<0, 0>> ELSE state
  IN [f \in Fields |-> IF patch[f] = 0 THEN base[f] ELSE patch[f]]

EncodeOne(a) ==
  [type |-> a.type, collection |-> a.collection, entityID |-> a.entityID,
   patch |-> CASE a.type = "Create" -> a.current
               [] a.type = "Save" -> Compare(a.previous, a.current)
               [] OTHER -> Absent]

\* eventCodec.encode: one event per action, in order
CodecEncode(actions) == [i \in 1..Len(actions) |-> EncodeOne(actions[i])]

\* eventCodec.reduce: new state and normalized action for one event
CodecReduce(state, event) ==
  [state |-> CASE event.type = "Create" -> event.patch
                [] event.type = "Save" -> ApplyPatch(state, event.patch)
                [] event.type = "Delete" -> Absent
                [] OTHER -> state,
   action |-> [type |-> event.type, collection |-> event.collection,
               entityID |-> event.entityID]]

EventInputs == {EncodeOne(a) : a \in ActionInputs}

\* the events given to dispatch, and the batches of them
DispatchEvents == {e \in EventInputs : e.type \in {"Create", "Delete"} /\ e.entityID = "e1"}
DispatchBatches == UNION {[1..n -> DispatchEvents] : n \in 1..MaxDispatchBatch}

\* the addrs of a put call: none, or up to MaxAddrs addresses
AddrLists == UNION {[1..n -> Addrs] : n \in 0..MaxAddrs}

Min(a, b) == IF a < b THEN a ELSE b

\* the batches of at most m (and at most MaxBatch) elements of S
Batches(S, m) == UNION {[1..n -> S] : n \in 1..Min(MaxBatch, m)}


\* ---------------------------------------------------------------- datastore
\* JS truthiness of a decoded entity: an object is truthy, undefined is not
Truthy(v) == v # Absent

PutOp(key, value) == [op |-> "put", key |-> key, value |-> value]
DeleteOp(key) == [op |-> "delete", key |-> key, value |-> Absent]

ApplyOp(store, o) ==
  [store EXCEPT ![o.key] = IF o.op = "put" THEN o.value ELSE Absent]

RECURSIVE ApplyBatch(_, _)
ApplyBatch(store, batch) ==
  IF batch = <<>> THEN store
  ELSE ApplyBatch(ApplyOp(store, Head(batch)), Tail(batch))

\* datastore.has(key) without await: the value tested is the Promise object
ExistsUnawaited(store, key) == TRUE

\* ---------------------------------------------------------------- reduce
\* mutant: the switch without the test of oldState under Create
ReduceSwitchNoExistingCheck(batch, key, oldState, r) ==
  CASE r.action.type = "Delete" ->
         [err |-> None, batch |-> Append(batch, DeleteOp(key))]
    [] r.action.type \in {"Create", "Save"} ->
         [err |-> None, batch |-> Append(batch, PutOp(key, r.state))]
    [] OTHER ->
         [err |-> "Unknown Operation", batch |-> batch]

\* batch followed by a delete of every key of keys
RECURSIVE DeleteEach(_, _)
DeleteEach(batch, keys) ==
  IF keys = {} THEN batch
  ELSE LET k == CHOOSE x \in keys : TRUE
       IN DeleteEach(Append(batch, DeleteOp(k)), keys \ {k})

\* mutant: Delete removes every entity of the event's collection
ReduceSwitchDeletesCollection(batch, key, oldState, r) ==
  CASE r.action.type = "Delete" ->
         [err |-> None,
          batch |-> DeleteEach(batch, {CollectionKey(r.action.collection, id) : id \in EntityIDs})]
    [] r.action.type = "Create" ->
         IF Truthy(oldState)
         THEN [err |-> "Existing Entity", batch |-> batch]
         ELSE [err |-> None, batch |-> Append(batch, PutOp(key, r.state))]
    [] r.action.type = "Save" ->
         [err |-> None, batch |-> Append(batch, PutOp(key, r.state))]
    [] OTHER ->
         [err |-> "Unknown Operation", batch |-> batch]

\* the switch on the normalized action type
ReduceSwitch(batch, key, oldState, r) ==
  CASE r.action.type = "Delete" ->
         [err |-> None, batch |-> Append(batch, DeleteOp(key))]
    [] r.action.type = "Create" ->
         IF Truthy(oldState)
         THEN [err |-> "Existing Entity", batch |-> batch]
         ELSE [err |-> None, batch |-> Append(batch, PutOp(key, r.state))]
    [] r.action.type = "Save" ->
         [err |-> None, batch |-> Append(batch, PutOp(key, r.state))]
    [] OTHER ->
         [err |-> "Unknown Operation", batch |-> batch]

\* batch.commit() is called and not awaited: the batch is handed to the
\* datastore, which applies it later
CommitBatch(pend, batch) == Append(pend, batch)

\* mutant: the batch built so far is committed when an event fails
AbortBatchCommits(pend, batch) == Append(pend, batch)

\* what a failed reduce leaves for the datastore: the batch is dropped
AbortBatch(pend, batch) == pend

\* ---------------------------------------------------------------- state
VARIABLES
  ds,           \* datastore contents: key -> value (Absent when no such key)
  pending,      \* committed batches the datastore has not applied yet
  holder,       \* owner of the write lock, or None
  waitq,        \* invocations waiting in lock.writeLock()
  pc,           \* position of each invocation
  rd,           \* locals of a handler/reduce invocation
  arg,          \* arguments of a registerSchema/close invocation
  collections,  \* this.collections: name -> collection object (0: none)
  ajvKeys,      \* schema keys held by this.schema
  listening,    \* listeners attached to the store's emitter
  dsClosed,     \* datastore.close() was called
  result,       \* outcome of each invocation's last finished call
  budget,       \* what is left of the run's workload
  foldRef,      \* history: codec left fold of every event given to handler
  serialRef,    \* history: store after running the handler calls one by one
  plain,        \* history: only sequential single-action handler calls, none failed
  live,         \* history: key has an applied Create and no applied Delete since
  emits,        \* history: what each handler/reduce invocation's current or last call emitted
  applied,      \* history, kept while plain: type of the last action applied to a key
  st,           \* locals and position of each start() invocation
  nextId,       \* the identifier the next ThreadID.fromRandom() returns
  threads,      \* identifiers given to service.store.addThread
  adapter,      \* identifier this.adapter was built with (0: no adapter)
  started,      \* history: identifier each completed start() ended with
  overlap,      \* history: two start() calls were in progress at once
  life,         \* what is left of a lifecycle run's budget
  epoch,        \* number of process restarts so far
  registered,   \* history: names registered in a process run that has ended
  scanned,      \* the constructor's registerSchemas() has finished
  reducers,     \* the dispatcher's subscribers, in registration order
  disp,         \* locals and position of the dispatch invocation
  seen,         \* the events each subscriber has processed
  dresult,      \* outcome of the last finished dispatch call
  dbudget,      \* dispatch calls left
  book,         \* address book: expiration time of each stored address (0: not stored)
  clock,        \* Date.now()
  bp,           \* locals and position of each AddrBook.put invocation
  notes,        \* newAddr notifications of each put invocation's current or last call
  bbudget       \* put calls left

lifeVars == <<st, nextId, threads, adapter, started, overlap, life, epoch, registered,
              scanned>>

dispVars == <<reducers, disp, seen, dresult, dbudget>>

bookVars == <<book, clock, bp, notes, bbudget>>

storeVars == <<ds, pending, holder, waitq, pc, rd, arg, collections, ajvKeys, listening,
               dsClosed, result, budget, foldRef, serialRef, plain, live, emits,
               applied>>

vars == <<storeVars, lifeVars, dispVars, bookVars>>

NoFrame ==
  [actions |-> <<>>, events |-> <<>>, i |-> 0, old |-> Absent, batch |-> <<>>, acts |-> <<>>,
   err |-> None, fold |-> [k \in EntityKeys |-> Unread], sc |-> "no", le |-> "no",
   got |-> None, base |-> [k \in EntityKeys |-> Unread]]

\* history: the entities a call found stored when it was made with no other
\* handler/reduce call in progress and nothing left for the datastore to apply;
\* NoBase otherwise, and from the moment another such call is made
NoBase == [k \in EntityKeys |-> Unread]

Alone(p) == pending = <<>> /\ \A q \in Reducers \ {p} : pc[q] = "idle"

BaseOf(p) == IF Alone(p) THEN [k \in EntityKeys |-> ds[k]] ELSE NoBase

\* the frames once p is called with frame f: every other call is no longer alone
Enter(p, f) ==
  [q \in Reducers |-> IF q = p THEN [f EXCEPT !.base = BaseOf(p)]
                       ELSE [rd[q] EXCEPT !.base = NoBase]]

NoRef == [k \in EntityKeys |-> Absent]

NoApplied == [k \in EntityKeys |-> None]

NoArg == [name |-> None, outcome |-> None]

NoStart == [pc |-> "idle", id |-> 0, probe |-> None, result |-> None]

\* new Dispatcher(): no subscriber yet, no dispatch in progress
NoDispatch == [pc |-> "idle", events |-> <<>>, i |-> 0, done |-> <<>>]

DispatcherInit ==
  /\ reducers = <<>>
  /\ disp = NoDispatch
  /\ seen = [s \in Subscribers |-> <<>>]
  /\ dresult = None
  /\ dbudget = MaxDispatches

NoPut == [pc |-> "idle", ttl |-> 0, addrs |-> <<>>, i |-> 0, batch |-> <<>>]

\* new AddrBook(datastore): nothing stored; the clock is Date.now()
BookInit ==
  /\ book = [a \in Addrs |-> 0]
  /\ clock = 0
  /\ bp = [p \in Putters |-> NoPut]
  /\ notes = [p \in Putters |-> <<>>]
  /\ bbudget = MaxPuts


\* a Store constructed over an empty datastore, registerSchemas() having found
\* nothing to register, with a workload drawn from ws
InitWith(ws) ==
  /\ ds = [k \in AllKeys |-> Absent]
  /\ pending = <<>>
  /\ holder = None
  /\ waitq = <<>>
  /\ pc = [p \in Procs |-> "idle"]
  /\ rd = [p \in Reducers |-> NoFrame]
  /\ arg = [p \in Registrars \cup Closers |-> NoArg]
  /\ collections = [n \in Names |-> 0]
  /\ ajvKeys = {}
  /\ listening = TRUE
  /\ dsClosed = FALSE
  /\ result = [p \in Procs |-> None]
  /\ budget \in ws
  /\ foldRef = NoRef
  /\ serialRef = NoRef
  /\ plain = TRUE
  /\ live = [k \in EntityKeys |-> FALSE]
  /\ emits = [p \in Reducers |-> <<>>]
  /\ applied = NoApplied
  /\ st = [t \in Starters |-> NoStart]
  /\ nextId = 1
  /\ threads = {}
  /\ adapter = 0
  /\ started = <<>>
  /\ overlap = FALSE
  /\ life = LifeBudget
  /\ epoch = 0
  /\ registered = {}
  /\ scanned = TRUE
  /\ DispatcherInit
  /\ BookInit

Init == InitWith(Workloads)

AllIdle == \A p \in Procs : pc[p] = "idle"

\* ---------------------------------------------------------------- lock
\* mutant: lock.writeLock() is called and not awaited
WriteLockNoAwait(p) ==
  /\ holder' = IF holder = None THEN p ELSE holder
  /\ waitq' = waitq
  /\ pc' = [pc EXCEPT ![p] = "locked"]

\* await this.lock.writeLock()
WriteLock(p) ==
  IF holder = None
  THEN /\ holder' = p
       /\ waitq' = waitq
       /\ pc' = [pc EXCEPT ![p] = "locked"]
  ELSE /\ holder' = holder
       /\ waitq' = Append(waitq, p)
       /\ pc' = [pc EXCEPT ![p] = "wait"]

\* this.lock.unlock(), with p returning to its caller
Unlock(p) ==
  IF waitq = <<>>
  THEN /\ holder' = None
       /\ waitq' = waitq
       /\ pc' = [pc EXCEPT ![p] = "idle"]
  ELSE /\ holder' = Head(waitq)
       /\ waitq' = Tail(waitq)
       /\ pc' = [pc EXCEPT ![p] = "idle", ![Head(waitq)] = "locked"]


\* ---------------------------------------------------------------- history
\* the codec's left fold of a sequence of events, entity by entity
RECURSIVE FoldCodec(_, _)
FoldCodec(ref, events) ==
  IF events = <<>> THEN ref
  ELSE LET e == Head(events)
       IN FoldCodec([ref EXCEPT ![KeyOf(e)] = CodecReduce(ref[KeyOf(e)], e).state],
                    Tail(events))

\* one whole reduce call run alone against store, its batch applied at once
RECURSIVE SerialRun(_, _, _)
SerialRun(store, events, batch) ==
  IF events = <<>> THEN ApplyBatch(store, batch)
  ELSE LET e == Head(events)
           old == store[KeyOf(e)]
           sw == ReduceSwitch(batch, KeyOf(e), old, CodecReduce(old, e))
       IN IF sw.err # None THEN store ELSE SerialRun(store, Tail(events), sw.batch)

\* the applied normalized actions, entity by entity
RECURSIVE LiveAfter(_, _)
LiveAfter(lv, acts) ==
  IF acts = <<>> THEN lv
  ELSE LET a == Head(acts)
           k == CollectionKey(a.collection, a.entityID)
       IN LiveAfter([lv EXCEPT ![k] = CASE a.type = "Create" -> TRUE
                                       [] a.type = "Delete" -> FALSE
                                       [] OTHER -> @],
                    Tail(acts))

RECURSIVE HasDoubleCreate(_, _)
HasDoubleCreate(lv, acts) ==
  IF acts = <<>> THEN FALSE
  ELSE LET a == Head(acts)
           k == CollectionKey(a.collection, a.entityID)
       IN \/ (a.type = "Create" /\ lv[k])
          \/ HasDoubleCreate(LiveAfter(lv, <<a>>), Tail(acts))

\* no reduce was ever started outside handler
localOnly == \A r \in Remotes : pc[r] = "idle" /\ result[r] = None

OthersIdle(p) == \A q \in Procs \ {p} : pc[q] = "idle"

PlainActions(actions) ==
  /\ Len(actions) = 1
  /\ actions[1].type \in {"Create", "Save", "Delete"}

\* ---------------------------------------------------------------- handler
\* handler(actions): up to the await of lock.writeLock()
HandlerCall(p, actions) ==
  /\ pc[p] = "idle"
  /\ p = "h2" => pc["h1"] # "idle"   \* h1 and h2 are interchangeable: h2 is the second of two overlapping calls
  /\ Len(actions) <= budget.events
  /\ budget' = [budget EXCEPT !.events = @ - Len(actions)]
  /\ rd' = Enter(p, [NoFrame EXCEPT !.actions = actions])
  /\ result' = [result EXCEPT ![p] = None]
  /\ emits' = [emits EXCEPT ![p] = <<>>]
  /\ plain' = (plain /\ OthersIdle(p) /\ PlainActions(actions))
  /\ foldRef' = IF plain' THEN foldRef ELSE NoRef
  /\ WriteLock(p)
  /\ UNCHANGED <<ds, pending, arg, collections, ajvKeys, listening, dsClosed,
                 serialRef, live>>
  /\ applied' = IF plain' THEN applied ELSE NoApplied
  /\ UNCHANGED <<lifeVars, dispVars, bookVars>>

\* const { events, block } = await this.eventCodec.encode(actions), then
\* dispatcher.dispatch(...events) enters reduce; ok = FALSE: encode throws
HandlerEncode(p, ok) ==
  /\ pc[p] = "locked"
  /\ holder = p
  /\ IF ok
     THEN LET events == CodecEncode(rd[p].actions)
          IN /\ rd' = [rd EXCEPT ![p].events = events, ![p].i = 1]
             /\ pc' = [pc EXCEPT ![p] = "get"]
             /\ foldRef' = IF plain THEN FoldCodec(foldRef, events) ELSE NoRef
             /\ serialRef' = IF localOnly THEN SerialRun(serialRef, events, <<>>)
                              ELSE NoRef
             /\ plain' = plain
     ELSE /\ rd' = [rd EXCEPT ![p].err = "Encode Error"]
          /\ pc' = [pc EXCEPT ![p] = "fail"]
          /\ plain' = FALSE
          /\ foldRef' = NoRef
          /\ serialRef' = serialRef
  /\ UNCHANGED <<ds, pending, holder, waitq, arg, collections, ajvKeys, listening,
                 dsClosed, result, budget, live, emits>>
  /\ applied' = IF plain' THEN applied ELSE NoApplied
  /\ UNCHANGED <<lifeVars, dispVars, bookVars>>

GetOutcomes == {"value", "error"}

\* oldState = decode(await this.datastore.get(key)) in its try/catch: a key
\* that is not stored makes get throw Not Found, which leaves oldState
\* undefined; out = "error": get throws another error, which is rethrown
ReduceGet(p, out) ==
  /\ pc[p] = "get"
  /\ IF out = "error"
     THEN /\ budget.faults > 0
          /\ budget' = [budget EXCEPT !.faults = @ - 1]
          /\ rd' = [rd EXCEPT ![p].got = "error", ![p].err = "Datastore Error"]
          /\ pc' = [pc EXCEPT ![p] = "fail"]
          /\ plain' = FALSE
          /\ foldRef' = NoRef
     ELSE LET v == ds[KeyOf(rd[p].events[rd[p].i])]
          IN /\ rd' = [rd EXCEPT ![p].old = v,
                                 ![p].got = IF v = Absent THEN "notfound" ELSE "value"]
             /\ pc' = [pc EXCEPT ![p] = "codec"]
             /\ UNCHANGED <<budget, plain, foldRef>>
  /\ UNCHANGED <<ds, pending, holder, waitq, arg, collections, ajvKeys, listening,
                 dsClosed, result, serialRef, live, emits>>
  /\ applied' = IF plain' THEN applied ELSE NoApplied
  /\ UNCHANGED <<lifeVars, dispVars, bookVars>>

\* await this.eventCodec.reduce(oldState, event), actions.push, the switch and,
\* after the last event, batch.commit() and emit('stateChange', actions)
ReduceApply(p) ==
  /\ pc[p] = "codec"
  /\ LET f == rd[p]
         e == f.events[f.i]
         k == KeyOf(e)
         r == CodecReduce(f.old, e)
         sw == ReduceSwitch(f.batch, k, f.old, r)
         acts == Append(f.acts, r.action)
         prior == IF f.fold[k] = Unread THEN f.old ELSE f.fold[k]
         fold == [f.fold EXCEPT ![k] = CodecReduce(prior, e).state]
     IN IF sw.err # None
        THEN /\ rd' = [rd EXCEPT ![p].err = sw.err, ![p].acts = acts]
             /\ pc' = [pc EXCEPT ![p] = "fail"]
             /\ pending' = AbortBatch(pending, f.batch)
             /\ UNCHANGED <<live, emits, applied>>
        ELSE IF f.i < Len(f.events)
        THEN /\ rd' = [rd EXCEPT ![p].batch = sw.batch, ![p].acts = acts,
                                 ![p].fold = fold, ![p].i = f.i + 1]
             /\ pc' = [pc EXCEPT ![p] = "get"]
             /\ UNCHANGED <<pending, live, emits, applied>>
        ELSE /\ Len(pending) < MaxPending
             /\ rd' = [rd EXCEPT ![p].batch = sw.batch, ![p].acts = acts,
                                 ![p].fold = fold,
                                 ![p].sc = IF listening THEN "delivered" ELSE "dropped"]
             /\ pc' = [pc EXCEPT ![p] = "ret"]
             /\ pending' = CommitBatch(pending, sw.batch)
             /\ live' = LiveAfter(live, acts)
             /\ emits' = [emits EXCEPT ![p] = Append(@, "stateChange")]
             /\ applied' = IF plain THEN [applied EXCEPT ![k] = r.action.type]
                            ELSE NoApplied
  /\ UNCHANGED <<ds, holder, waitq, arg, collections, ajvKeys, listening, dsClosed,
                 result, budget, foldRef, serialRef, plain>>
  /\ UNCHANGED <<lifeVars, dispVars, bookVars>>

\* mutant: localEvent is emitted in the finally block, whatever dispatch did
HandlerFinishAlwaysEmits(p) ==
  /\ p \in Handlers
  /\ pc[p] \in {"ret", "fail"}
  /\ result' = [result EXCEPT ![p] = IF pc[p] = "ret" THEN "ok" ELSE rd[p].err]
  /\ rd' = [rd EXCEPT ![p] = NoFrame]
  /\ emits' = [emits EXCEPT ![p] = Append(@, "localEvent")]
  /\ plain' = (plain /\ pc[p] = "ret")
  /\ foldRef' = IF plain' THEN foldRef ELSE NoRef
  /\ Unlock(p)
  /\ UNCHANGED <<ds, pending, arg, collections, ajvKeys, listening, dsClosed, budget,
                 serialRef, live>>
  /\ applied' = IF plain' THEN applied ELSE NoApplied
  /\ UNCHANGED <<lifeVars, dispVars, bookVars>>

\* after dispatch: this.emit('localEvent', block) unless it threw; finally unlock
HandlerFinish(p) ==
  /\ p \in Handlers
  /\ pc[p] \in {"ret", "fail"}
  /\ result' = [result EXCEPT ![p] = IF pc[p] = "ret" THEN "ok" ELSE rd[p].err]
  /\ rd' = [rd EXCEPT ![p] = NoFrame]
  /\ emits' = IF pc[p] = "ret" THEN [emits EXCEPT ![p] = Append(@, "localEvent")]
               ELSE emits
  /\ plain' = (plain /\ pc[p] = "ret")
  /\ foldRef' = IF plain' THEN foldRef ELSE NoRef
  /\ Unlock(p)
  /\ UNCHANGED <<ds, pending, arg, collections, ajvKeys, listening, dsClosed, budget,
                 serialRef, live>>
  /\ applied' = IF plain' THEN applied ELSE NoApplied
  /\ UNCHANGED <<lifeVars, dispVars, bookVars>>

\* ---------------------------------------------------------------- remote
\* reduce(...events) called directly, as by a source of remote events
RemoteReduce(p, events) ==
  /\ p \in Remotes
  /\ pc[p] = "idle"
  /\ Len(events) <= budget.events
  /\ budget' = [budget EXCEPT !.events = @ - Len(events)]
  /\ rd' = Enter(p, [NoFrame EXCEPT !.events = events, !.i = 1])
  /\ pc' = [pc EXCEPT ![p] = "get"]
  /\ result' = [result EXCEPT ![p] = None]
  /\ emits' = [emits EXCEPT ![p] = <<>>]
  /\ plain' = FALSE
  /\ foldRef' = NoRef
  /\ serialRef' = NoRef
  /\ UNCHANGED <<ds, pending, holder, waitq, arg, collections, ajvKeys, listening,
                 dsClosed, live>>
  /\ applied' = IF plain' THEN applied ELSE NoApplied
  /\ UNCHANGED <<lifeVars, dispVars, bookVars>>

\* mutant: the direct caller's reduce emits localEvent as handler does
RemoteReturnEmitsLocalEvent(p) ==
  /\ p \in Remotes
  /\ pc[p] \in {"ret", "fail"}
  /\ result' = [result EXCEPT ![p] = IF pc[p] = "ret" THEN "ok" ELSE rd[p].err]
  /\ rd' = [rd EXCEPT ![p] = NoFrame]
  /\ pc' = [pc EXCEPT ![p] = "idle"]
  /\ emits' = IF pc[p] = "ret" THEN [emits EXCEPT ![p] = Append(@, "localEvent")]
               ELSE emits
  /\ UNCHANGED <<ds, pending, holder, waitq, arg, collections, ajvKeys, listening,
                 dsClosed, budget, foldRef, serialRef, plain, live, applied>>
  /\ UNCHANGED <<lifeVars, dispVars, bookVars>>

\* the promise of reduce settles for its direct caller
RemoteReturn(p) ==
  /\ p \in Remotes
  /\ pc[p] \in {"ret", "fail"}
  /\ result' = [result EXCEPT ![p] = IF pc[p] = "ret" THEN "ok" ELSE rd[p].err]
  /\ rd' = [rd EXCEPT ![p] = NoFrame]
  /\ pc' = [pc EXCEPT ![p] = "idle"]
  /\ UNCHANGED <<ds, pending, holder, waitq, arg, collections, ajvKeys, listening,
                 dsClosed, budget, foldRef, serialRef, plain, live, emits, applied>>
  /\ UNCHANGED <<lifeVars, dispVars, bookVars>>

\* the datastore applies the oldest batch handed to it by commit()
CommitLand ==
  /\ pending # <<>>
  /\ ds' = ApplyBatch(ds, Head(pending))
  /\ pending' = Tail(pending)
  /\ UNCHANGED <<holder, waitq, pc, rd, arg, collections, ajvKeys, listening, dsClosed,
                 result, budget, foldRef, serialRef, plain, live, emits, applied>>
  /\ UNCHANGED <<lifeVars, dispVars, bookVars>>


\* ---------------------------------------------------------------- registerSchema
RegisterOutcomes == {"ok", "invalid", "compile"}

\* registerSchema(name, schema): up to the await of lock.writeLock();
\* outcome: what this.schema makes of the schema
RegisterCall(p, name, outcome) ==
  /\ p \in Registrars
  /\ pc[p] = "idle"
  /\ budget.registers > 0
  /\ budget' = [budget EXCEPT !.registers = @ - 1]
  /\ arg' = [arg EXCEPT ![p] = [name |-> name, outcome |-> outcome]]
  /\ result' = [result EXCEPT ![p] = None]
  /\ WriteLock(p)
  /\ UNCHANGED <<ds, pending, rd, collections, ajvKeys, listening, dsClosed,
                 foldRef, serialRef, plain, live, emits, applied>>
  /\ UNCHANGED <<lifeVars, dispVars, bookVars>>

EncodedSchema == <<1>>

\* new Collection(...): an object distinct from every collection registered
NewCollection == Cardinality({n \in Names : collections[n] # 0}) + 1

\* mutant: registerSchema without the test of this.collections.has(name)
RegisterBodyOverwrites(p) ==
  /\ p \in Registrars
  /\ pc[p] = "locked"
  /\ holder = p
  /\ IF arg[p].outcome # "ok"
     THEN /\ result' = [result EXCEPT ![p] = "Schema Error"]
          /\ UNCHANGED <<collections, ajvKeys, ds>>
     ELSE /\ result' = [result EXCEPT ![p] = "ok"]
          /\ ajvKeys' = ajvKeys \cup {arg[p].name}
          /\ ds' = ds
          /\ collections' = [collections EXCEPT ![arg[p].name] = NewCollection]
  /\ arg' = [arg EXCEPT ![p] = NoArg]
  /\ Unlock(p)
  /\ UNCHANGED <<pending, rd, listening, dsClosed, budget, foldRef, serialRef, plain,
                 live, emits, applied>>
  /\ UNCHANGED <<lifeVars, dispVars, bookVars>>

\* the try block of registerSchema and its finally
RegisterBody(p) ==
  /\ p \in Registrars
  /\ pc[p] = "locked"
  /\ holder = p
  /\ LET name == arg[p].name
         key == RegisterKey(name)
     IN IF collections[name] # 0
        THEN /\ result' = [result EXCEPT ![p] = "Already Registered"]
             /\ UNCHANGED <<collections, ajvKeys, ds>>
        ELSE IF name \in ajvKeys \/ arg[p].outcome = "invalid"
        THEN /\ result' = [result EXCEPT ![p] = "Schema Error"]
             /\ UNCHANGED <<collections, ajvKeys, ds>>
        ELSE IF arg[p].outcome = "compile"
        THEN /\ result' = [result EXCEPT ![p] = "Schema Error"]
             /\ ajvKeys' = ajvKeys \cup {name}
             /\ UNCHANGED <<collections, ds>>
        ELSE /\ result' = [result EXCEPT ![p] = "ok"]
             /\ ajvKeys' = ajvKeys \cup {name}
             /\ ds' = IF ExistsUnawaited(ds, key) THEN ds
                      ELSE [ds EXCEPT ![key] = EncodedSchema]
             /\ collections' = [collections EXCEPT ![name] = NewCollection]
  /\ arg' = [arg EXCEPT ![p] = NoArg]
  /\ Unlock(p)
  /\ UNCHANGED <<pending, rd, listening, dsClosed, budget, foldRef, serialRef, plain, live, emits, applied>>
  /\ UNCHANGED <<lifeVars, dispVars, bookVars>>

\* this.collections.get(name): 0 stands for undefined
getCollection(name) == collections[name]

\* ---------------------------------------------------------------- close
CloseOutcomes == {"ok", "listeners", "datastore"}

\* mutant: close() detaches the listeners before it waits for the lock
CloseCallDetachesFirst(p, outcome) ==
  /\ p \in Closers
  /\ pc[p] = "idle"
  /\ budget.closes > 0
  /\ budget' = [budget EXCEPT !.closes = @ - 1]
  /\ arg' = [arg EXCEPT ![p] = [name |-> None, outcome |-> outcome]]
  /\ result' = [result EXCEPT ![p] = None]
  /\ listening' = FALSE
  /\ WriteLock(p)
  /\ UNCHANGED <<ds, pending, rd, collections, ajvKeys, dsClosed,
                 foldRef, serialRef, plain, live, emits, applied>>
  /\ UNCHANGED <<lifeVars, dispVars, bookVars>>

\* close(): up to the await of lock.writeLock(); outcome: whether
\* removeAllListeners() or datastore.close() throws
CloseCall(p, outcome) ==
  /\ p \in Closers
  /\ pc[p] = "idle"
  /\ budget.closes > 0
  /\ budget' = [budget EXCEPT !.closes = @ - 1]
  /\ arg' = [arg EXCEPT ![p] = [name |-> None, outcome |-> outcome]]
  /\ result' = [result EXCEPT ![p] = None]
  /\ WriteLock(p)
  /\ UNCHANGED <<ds, pending, rd, collections, ajvKeys, listening, dsClosed,
                 foldRef, serialRef, plain, live, emits, applied>>
  /\ UNCHANGED <<lifeVars, dispVars, bookVars>>

\* removeAllListeners(); datastore.close(); lock.unlock(), with no try/finally
CloseBody(p) ==
  /\ p \in Closers
  /\ pc[p] = "locked"
  /\ holder = p
  /\ arg' = [arg EXCEPT ![p] = NoArg]
  /\ CASE arg[p].outcome = "listeners" ->
            /\ result' = [result EXCEPT ![p] = "Close Error"]
            /\ pc' = [pc EXCEPT ![p] = "idle"]
            /\ UNCHANGED <<listening, dsClosed, holder, waitq>>
       [] arg[p].outcome = "datastore" ->
            /\ result' = [result EXCEPT ![p] = "Close Error"]
            /\ listening' = FALSE
            /\ pc' = [pc EXCEPT ![p] = "idle"]
            /\ UNCHANGED <<dsClosed, holder, waitq>>
       [] OTHER ->
            /\ result' = [result EXCEPT ![p] = "ok"]
            /\ listening' = FALSE
            /\ dsClosed' = TRUE
            /\ Unlock(p)
  /\ UNCHANGED <<ds, pending, rd, collections, ajvKeys, budget, foldRef, serialRef,
                 plain, live, emits, applied>>
  /\ UNCHANGED <<lifeVars, dispVars, bookVars>>

\* ---------------------------------------------------------------- start
\* id.bytes() and ThreadID.fromBytes(): an identifier n is stored as <<n>>
IdBytes(n) == <<n>>
FromBytes(b) == b[1]

ProbeOutcomes == {"value", "error"}

\* threadID(): ThreadID.fromBytes(await this.datastore.get(threadKey)) in a
\* try whose catch returns undefined for every error, Not Found or other;
\* 0 stands for undefined
threadID(store, out) ==
  IF out = "error" THEN 0
  ELSE IF store[threadKey] = Absent THEN 0
  ELSE FromBytes(store[threadKey])

\* this.datastore.put(key, value) without await: the write is handed to the
\* datastore, which applies it later
PutUnawaited(pend, key, value) == Append(pend, <<PutOp(key, value)>>)

\* start(): up to the await of this.threadID()
StartCall(t) ==
  /\ st[t].pc = "idle"
  /\ t = "t2" => st["t1"].pc # "idle"   \* t2 is the second of two overlapping calls
  /\ life.starts > 0
  /\ life' = [life EXCEPT !.starts = @ - 1]
  /\ st' = [st EXCEPT ![t] = [NoStart EXCEPT !.pc = "probe"]]
  /\ overlap' = (overlap \/ \E u \in Starters \ {t} : st[u].pc # "idle")
  /\ UNCHANGED <<ds, pending, holder, waitq, pc, rd, arg, collections, ajvKeys,
                 listening, dsClosed, result, budget, foldRef, serialRef, plain, live,
                 emits, applied>>
  /\ UNCHANGED <<nextId, threads, adapter, started, epoch, registered, scanned>>
  /\ UNCHANGED <<dispVars, bookVars>>

\* threadID() settles; with an identifier the adapter is built and started and
\* start returns, without one ThreadID.fromRandom() and the await of createThread
StartProbe(t, out) ==
  /\ st[t].pc = "probe"
  /\ IF out = "error"
     THEN life.faults > 0 /\ life' = [life EXCEPT !.faults = @ - 1]
     ELSE life' = life
  /\ LET id == threadID(ds, out)
         how == IF out = "error" THEN "error"
                ELSE IF ds[threadKey] = Absent THEN "notfound" ELSE "value"
     IN IF id # 0
        THEN /\ st' = [st EXCEPT ![t] = [pc |-> "idle", id |-> id, probe |-> how,
                                         result |-> "ok"]]
             /\ adapter' = id
             /\ started' = Append(started, id)
             /\ nextId' = nextId
        ELSE /\ st' = [st EXCEPT ![t] = [pc |-> "create", id |-> nextId, probe |-> how,
                                         result |-> None]]
             /\ nextId' = nextId + 1
             /\ UNCHANGED <<adapter, started>>
  /\ UNCHANGED <<ds, pending, holder, waitq, pc, rd, arg, collections, ajvKeys,
                 listening, dsClosed, result, budget, foldRef, serialRef, plain, live,
                 emits, applied>>
  /\ UNCHANGED <<threads, overlap, epoch, registered, scanned>>
  /\ UNCHANGED <<dispVars, bookVars>>

\* ThreadsService.createThread(id) settles; await of service.store.addThread(info)
StartCreateThread(t) ==
  /\ st[t].pc = "create"
  /\ st' = [st EXCEPT ![t].pc = "add"]
  /\ UNCHANGED <<ds, pending, holder, waitq, pc, rd, arg, collections, ajvKeys,
                 listening, dsClosed, result, budget, foldRef, serialRef, plain, live,
                 emits, applied>>
  /\ UNCHANGED <<nextId, threads, adapter, started, overlap, life, epoch, registered,
                 scanned>>
  /\ UNCHANGED <<dispVars, bookVars>>

\* addThread settles; datastore.put(threadKey, id.bytes()) is called and not
\* awaited, the adapter is built and started, start returns
StartAddThread(t) ==
  /\ st[t].pc = "add"
  /\ Len(pending) < MaxPending
  /\ threads' = threads \cup {st[t].id}
  /\ pending' = PutUnawaited(pending, threadKey, IdBytes(st[t].id))
  /\ adapter' = st[t].id
  /\ started' = Append(started, st[t].id)
  /\ st' = [st EXCEPT ![t].pc = "idle", ![t].result = "ok"]
  /\ UNCHANGED <<ds, holder, waitq, pc, rd, arg, collections, ajvKeys,
                 listening, dsClosed, result, budget, foldRef, serialRef, plain, live,
                 emits, applied>>
  /\ UNCHANGED <<nextId, overlap, life, epoch, registered, scanned>>
  /\ UNCHANGED <<dispVars, bookVars>>

\* ---------------------------------------------------------------- restart
\* the process ends and a new Store is constructed over the same datastore:
\* what the datastore holds stays, what it was handed and had not applied is
\* lost with the process, every invocation in progress is gone
Restart ==
  /\ life.restarts > 0
  /\ life' = [life EXCEPT !.restarts = @ - 1]
  /\ epoch' = epoch + 1
  /\ registered' = registered \cup {n \in Names : collections[n] # 0}
  /\ scanned' = FALSE
  /\ pending' = <<>>
  /\ holder' = None
  /\ waitq' = <<>>
  /\ pc' = [p \in Procs |-> "idle"]
  /\ rd' = [p \in Reducers |-> NoFrame]
  /\ arg' = [p \in Registrars \cup Closers |-> NoArg]
  /\ collections' = [n \in Names |-> 0]
  /\ ajvKeys' = {}
  /\ listening' = TRUE
  /\ dsClosed' = FALSE
  /\ result' = [p \in Procs |-> None]
  /\ emits' = [p \in Reducers |-> <<>>]
  /\ st' = [t \in Starters |-> NoStart]
  /\ adapter' = 0
  /\ UNCHANGED <<ds, budget, foldRef, serialRef, plain, live, applied>>
  /\ UNCHANGED <<nextId, threads, started, overlap>>
  /\ UNCHANGED <<dispVars, bookVars>>

\* registerSchemas(), called by the constructor: each schema stored under the
\* prefix /store/schema is given to registerSchema under the name of its key
RegisterSchemas ==
  /\ ~scanned
  /\ LET found == {n \in Names : ds[SchemaKey(n)] # Absent}
         todo == {n \in found : collections[n] = 0 /\ n \notin ajvKeys}
     IN IF todo = {}
        THEN /\ scanned' = TRUE
             /\ UNCHANGED <<collections, ajvKeys>>
        ELSE \E n \in todo :
               /\ collections' = [collections EXCEPT ![n] = NewCollection]
               /\ ajvKeys' = ajvKeys \cup {n}
               /\ scanned' = scanned
  /\ UNCHANGED <<ds, pending, holder, waitq, pc, rd, arg, listening, dsClosed, result,
                 budget, foldRef, serialRef, plain, live, emits, applied>>
  /\ UNCHANGED <<st, nextId, threads, adapter, started, overlap, life, epoch, registered>>
  /\ UNCHANGED <<dispVars, bookVars>>

\* ---------------------------------------------------------------- dispatcher
InRegistered(s) == \E j \in 1..Len(reducers) : reducers[j] = s

\* register(reducer): the subscriber is added after those registered before
DispatcherRegister(s) ==
  /\ disp.pc = "idle"
  /\ ~InRegistered(s)
  /\ reducers' = Append(reducers, s)
  /\ UNCHANGED <<disp, seen, dresult, dbudget>>
  /\ UNCHANGED <<storeVars, lifeVars, bookVars>>

\* dispatch(...events): up to the call of the first subscriber's reduce
DispatchCall(events) ==
  /\ disp.pc = "idle"
  /\ dbudget > 0
  /\ dbudget' = dbudget - 1
  /\ disp' = [pc |-> "run", events |-> events, i |-> 1, done |-> <<>>]
  /\ dresult' = None
  /\ UNCHANGED <<reducers, seen>>
  /\ UNCHANGED <<storeVars, lifeVars, bookVars>>

\* mutant: subscribers are invoked from the last registered to the first
DispatchDeliverReversed(ok) ==
  /\ disp.pc = "run"
  /\ disp.i <= Len(reducers)
  /\ LET s == reducers[Len(reducers) + 1 - disp.i]
     IN IF ok
        THEN /\ seen' = [seen EXCEPT ![s] = @ \o disp.events]
             /\ disp' = [disp EXCEPT !.i = @ + 1, !.done = Append(@, s)]
        ELSE /\ seen' = seen
             /\ disp' = [disp EXCEPT !.pc = "fail"]
  /\ UNCHANGED <<reducers, dresult, dbudget>>
  /\ UNCHANGED <<storeVars, lifeVars, bookVars>>

\* the reduce(...events) of the next subscriber, awaited: ok, it has processed
\* the whole batch in order; otherwise it throws and dispatch stops there
DispatchDeliver(ok) ==
  /\ disp.pc = "run"
  /\ disp.i <= Len(reducers)
  /\ LET s == reducers[disp.i]
     IN IF ok
        THEN /\ seen' = [seen EXCEPT ![s] = @ \o disp.events]
             /\ disp' = [disp EXCEPT !.i = @ + 1, !.done = Append(@, s)]
        ELSE /\ seen' = seen
             /\ disp' = [disp EXCEPT !.pc = "fail"]
  /\ UNCHANGED <<reducers, dresult, dbudget>>
  /\ UNCHANGED <<storeVars, lifeVars, bookVars>>

\* dispatch settles: resolved once every subscriber has finished, rejected with
\* the error of the subscriber that threw
DispatchReturn ==
  /\ \/ disp.pc = "run" /\ disp.i > Len(reducers)
     \/ disp.pc = "fail"
  /\ dresult' = IF disp.pc = "run" THEN "ok" ELSE "Reducer Error"
  /\ disp' = [disp EXCEPT !.pc = "idle"]
  /\ UNCHANGED <<reducers, seen, dbudget>>
  /\ UNCHANGED <<storeVars, lifeVars, bookVars>>

\* ---------------------------------------------------------------- address book
BookPut(a) == [op |-> "put", addr |-> a]
BookDelete(a) == [op |-> "delete", addr |-> a]

\* batch.commit() of a batch made by datastore.batch(ttl): a put is stored to
\* expire ttl after the commit, a delete removes the key
RECURSIVE CommitTTLBatch(_, _, _)
CommitTTLBatch(b, batch, exp) ==
  IF batch = <<>> THEN b
  ELSE CommitTTLBatch([b EXCEPT ![Head(batch).addr] =
                          IF Head(batch).op = "put" THEN exp ELSE 0],
                      Tail(batch), exp)

\* put(id, log, ttl, ...addrs): up to the first await
BookPutCall(p, ttl, addrs) ==
  /\ bp[p].pc = "idle"
  /\ bbudget > 0
  /\ bbudget' = bbudget - 1
  /\ bp' = [bp EXCEPT ![p] = [pc |-> IF addrs = <<>> THEN "query" ELSE "loop",
                              ttl |-> ttl, addrs |-> addrs, i |-> 1, batch |-> <<>>]]
  /\ notes' = [notes EXCEPT ![p] = <<>>]
  /\ UNCHANGED <<book, clock>>
  /\ UNCHANGED <<storeVars, lifeVars, dispVars>>

\* put with no addrs: every stored address is deleted when ttl <= 0 and is
\* put again, with the batch's ttl, otherwise
BookQuery(p) ==
  /\ bp[p].pc = "query"
  /\ LET stored == SelectSeq(AddrOrder, LAMBDA a : book[a] # 0)
         batch == [j \in 1..Len(stored) |->
                     IF bp[p].ttl <= 0 THEN BookDelete(stored[j]) ELSE BookPut(stored[j])]
     IN bp' = [bp EXCEPT ![p].batch = batch, ![p].pc = "commit"]
  /\ UNCHANGED <<book, clock, notes, bbudget>>
  /\ UNCHANGED <<storeVars, lifeVars, dispVars>>

\* one turn of the loop over addrs, up to its await: batch.delete when
\* ttl <= 0; otherwise await datastore.has(key), and for a key that is not
\* stored batch.put and emit('newAddr', log, addrs)
BookHas(p) ==
  /\ bp[p].pc = "loop"
  /\ bp[p].i <= Len(bp[p].addrs)
  /\ LET a == bp[p].addrs[bp[p].i]
     IN IF bp[p].ttl <= 0
        THEN /\ bp' = [bp EXCEPT ![p].batch = Append(@, BookDelete(a)), ![p].i = @ + 1]
             /\ notes' = notes
        ELSE IF book[a] # 0
        THEN /\ bp' = [bp EXCEPT ![p].pc = "exp"]
             /\ notes' = notes
        ELSE /\ bp' = [bp EXCEPT ![p].batch = Append(@, BookPut(a)), ![p].i = @ + 1]
             /\ notes' = [notes EXCEPT ![p] = Append(@, a)]
  /\ UNCHANGED <<book, clock, bbudget>>
  /\ UNCHANGED <<storeVars, lifeVars, dispVars>>

\* await datastore.expiration(key), then batch.put when exp < Date.now() + ttl;
\* gone: what the comparison gives for a key that is no longer stored
BookExpiration(p, gone) ==
  /\ bp[p].pc = "exp"
  /\ LET a == bp[p].addrs[bp[p].i]
         exp == book[a]
         put == IF exp = 0 THEN gone ELSE exp < clock + bp[p].ttl
     IN bp' = [bp EXCEPT ![p].batch = IF put THEN Append(@, BookPut(a)) ELSE @,
                         ![p].i = @ + 1,
                         ![p].pc = "loop"]
  /\ UNCHANGED <<book, clock, notes, bbudget>>
  /\ UNCHANGED <<storeVars, lifeVars, dispVars>>

\* return await batch.commit()
BookCommit(p) ==
  /\ \/ bp[p].pc = "commit"
     \/ bp[p].pc = "loop" /\ bp[p].i > Len(bp[p].addrs)
  /\ book' = CommitTTLBatch(book, bp[p].batch, clock + bp[p].ttl)
  /\ bp' = [bp EXCEPT ![p].pc = "idle"]
  /\ UNCHANGED <<clock, notes, bbudget>>
  /\ UNCHANGED <<storeVars, lifeVars, dispVars>>

\* time passes
Tick ==
  /\ clock < MaxClock
  /\ clock' = clock + 1
  /\ UNCHANGED <<book, bp, notes, bbudget>>
  /\ UNCHANGED <<storeVars, lifeVars, dispVars>>

\* the TTL datastore drops a key whose expiration time has come
Sweep(a) ==
  /\ book[a] # 0
  /\ book[a] <= clock
  /\ book' = [book EXCEPT ![a] = 0]
  /\ UNCHANGED <<clock, bp, notes, bbudget>>
  /\ UNCHANGED <<storeVars, lifeVars, dispVars>>

\* ---------------------------------------------------------------- specification
Next ==
  \/ \E p \in Handlers, actions \in Batches(ActionInputs, budget.events) :
        HandlerCall(p, actions)
  \/ \E p \in Handlers, ok \in BOOLEAN : HandlerEncode(p, ok)
  \/ \E p \in Reducers, out \in GetOutcomes : ReduceGet(p, out)
  \/ \E p \in Reducers : ReduceApply(p)
  \/ \E p \in Handlers : HandlerFinish(p)
  \/ \E p \in Remotes, events \in Batches(EventInputs, budget.events) :
        RemoteReduce(p, events)
  \/ \E p \in Remotes : RemoteReturn(p)
  \/ CommitLand
  \/ \E p \in Registrars, name \in Names, outcome \in RegisterOutcomes :
        RegisterCall(p, name, outcome)
  \/ \E p \in Registrars : RegisterBody(p)
  \/ \E p \in Closers, outcome \in CloseOutcomes : CloseCall(p, outcome)
  \/ \E p \in Closers : CloseBody(p)

Spec == Init /\ [][Next]_vars

\* the lifecycle of a store: start(), registerSchema, the datastore applying
\* what it was handed, and the process restarting over the same datastore
InitLife == InitWith({LifeWorkload})

NextLife ==
  \/ \E t \in Starters : StartCall(t)
  \/ \E t \in Starters, out \in ProbeOutcomes : StartProbe(t, out)
  \/ \E t \in Starters : StartCreateThread(t)
  \/ \E t \in Starters : StartAddThread(t)
  \/ CommitLand
  \/ \E p \in Registrars, name \in Names, outcome \in RegisterOutcomes :
        RegisterCall(p, name, outcome)
  \/ \E p \in Registrars : RegisterBody(p)
  \/ Restart
  \/ RegisterSchemas

SpecLife == InitLife /\ [][NextLife]_vars

\* the dispatcher alone, with subscribers registering and dispatch called
InitDispatch == InitWith({NoWorkload})

NextDispatch ==
  \/ \E s \in Subscribers : DispatcherRegister(s)
  \/ \E events \in DispatchBatches : DispatchCall(events)
  \/ \E ok \in BOOLEAN : DispatchDeliver(ok)
  \/ DispatchReturn

SpecDispatch == InitDispatch /\ [][NextDispatch]_vars

\* the address book alone, with put calls made one after the other, time
\* passing and addresses expiring
InitBook == InitWith({NoWorkload})

NextBook ==
  \/ \E p \in Putters, ttl \in TTLs, addrs \in AddrLists : BookPutCall(p, ttl, addrs)
  \/ \E p \in Putters : BookQuery(p)
  \/ \E p \in Putters : BookHas(p)
  \/ \E p \in Putters, gone \in BOOLEAN : BookExpiration(p, gone)
  \/ \E p \in Putters : BookCommit(p)
  \/ Tick
  \/ \E a \in Addrs : Sweep(a)

SpecBook == InitBook /\ [][NextBook]_vars


\* ---------------------------------------------------------------- properties
Quiescent == AllIdle /\ pending = <<>> /\ holder = None

\* the value a batch leaves under key k: that of its last operation on k
RECURSIVE LastValue(_, _, _)
LastValue(batch, k, dflt) ==
  IF batch = <<>> THEN dflt
  ELSE LastValue(Tail(batch), k,
                 IF Head(batch).key = k THEN Head(batch).value ELSE dflt)

CurrentEvent(p) == rd[p].events[rd[p].i]

\* C1: after a sequence of single Create/Save/Delete actions, each given to its
\* own handler call, one call after the other and none of them failing, every
\* entity's stored state is the codec's left fold of its events from absence.
C1_SequenceIsFold ==
  (plain /\ Quiescent) => \A k \in EntityKeys : ds[k] = foldRef[k]

\* C2: the batch one reduce call commits leaves, for every entity it touches,
\* the sequential left fold of the call's events for that entity, starting from
\* the state the call found stored.
C2_BatchIsLeftFold ==
  \A p \in Reducers :
    pc[p] = "ret" =>
      \A k \in EntityKeys :
        rd[p].fold[k] # Unread => LastValue(rd[p].batch, k, Unread) = rd[p].fold[k]

\* C3: a reduce whose normalized action is a Create for an entity it read stored
\* state for fails with 'Existing Entity', and by failing it changes nothing in
\* the datastore and hands no batch to it.
C3_CreateOnExistingFails ==
  [][\A p \in Reducers :
       (/\ pc[p] = "codec"
        /\ pc'[p] # "codec"
        /\ CodecReduce(rd[p].old, CurrentEvent(p)).action.type = "Create"
        /\ rd[p].old # Absent)
       => (/\ pc'[p] = "fail"
           /\ rd'[p].err = "Existing Entity"
           /\ ds' = ds
           /\ pending' = pending)]_vars

C3_Witness ==
  \E p \in Reducers :
    /\ pc[p] = "fail"
    /\ rd[p].err = "Existing Entity"
    /\ rd[p].old # Absent
    /\ ds[KeyOf(CurrentEvent(p))] = rd[p].old

\* C4: in the normalized actions reduce applies to one entity, a Create is never
\* applied while an earlier applied Create has no applied Delete after it.
C4_NoSecondCreate ==
  [][\A p \in Reducers :
       (pc[p] = "codec" /\ pc'[p] = "ret") => ~HasDoubleCreate(live, rd'[p].acts)]_vars

\* C5: a reduce that fails on an event hands nothing of its batch to the
\* datastore, earlier events' mutations included, and its error is the outcome
\* of the handler call that dispatched the events.
C5_FailedBatchAborts ==
  [][\A p \in Reducers :
       /\ (pc[p] = "codec" /\ pc'[p] = "fail")
            => (/\ rd'[p].err \in {"Existing Entity", "Unknown Operation"}
                /\ ds' = ds
                /\ pending' = pending)
       /\ (pc[p] = "fail" /\ pc'[p] # "fail")
            => (/\ pc'[p] = "idle"
                /\ result'[p] = rd[p].err
                /\ ds' = ds
                /\ pending' = pending)]_vars

C5_Witness ==
  \E p \in Handlers :
    /\ pc[p] = "fail"
    /\ rd[p].err \in {"Existing Entity", "Unknown Operation"}
    /\ rd[p].batch # <<>>
    /\ rd[p].batch[1].key # KeyOf(CurrentEvent(p))
    /\ pending = <<>>
    /\ ds[rd[p].batch[1].key] = Absent

\* C6: when two handler calls overlap, the stored state in the end is that of
\* running the calls one after the other in the order they got the lock.
C6_NoLostUpdate ==
  (localOnly /\ Quiescent /\ result["h2"] # None) =>
     \A k \in EntityKeys : ds[k] = serialRef[k]

\* C7: an invocation of handler, registerSchema or close that is between its
\* lock acquisition and its release is the lock's holder, so at most one is,
\* and the collections and the listeners change only in the holder's step.
InCritical(p) == pc[p] \in {"locked", "get", "codec", "ret", "fail"}

C7_MutualExclusion ==
  /\ \A p \in Lockers : InCritical(p) => holder = p
  /\ Cardinality({p \in Lockers : InCritical(p)}) <= 1
  /\ \A i \in 1..Len(waitq) : pc[waitq[i]] = "wait" /\ holder # None

C7_Witness ==
  /\ Len(waitq) = 2
  /\ \E p \in Lockers : InCritical(p) /\ holder = p

\* C8: no two reduce invocations on the store are in progress at the same time.
C8_ReduceSerialized ==
  Cardinality({p \in Reducers : pc[p] \in {"get", "codec"}}) <= 1

\* C9: an invocation of handler, registerSchema or close that has ended does
\* not hold the write lock.
C9_LockReleased ==
  \A p \in Lockers : pc[p] = "idle" => holder # p

\* C10: registering a registered name fails with 'Already Registered' and
\* changes nothing, and getCollection(name) keeps returning the collection of
\* the name's first successful registration.
C10_RegistrationAppendOnly ==
  [][/\ \A n \in Names : getCollection(n) # 0 => getCollection(n)' = getCollection(n)
     /\ \A p \in Registrars :
          (pc[p] = "locked" /\ pc'[p] = "idle" /\ getCollection(arg[p].name) # 0)
            => (/\ result'[p] = "Already Registered"
                /\ collections' = collections
                /\ ajvKeys' = ajvKeys
                /\ ds' = ds)]_vars

C10_Witness ==
  \E p \in Registrars :
    /\ result[p] = "Already Registered"
    /\ \E n \in Names : getCollection(n) # 0

\* the normalized action the codec returns for an event
Normalized(e) == [type |-> e.type, collection |-> e.collection, entityID |-> e.entityID]

\* every mutation of batch shows in store
Shows(store, batch) ==
  \A j \in 1..Len(batch) : store[batch[j].key] = LastValue(batch, batch[j].key, Unread)

\* C13: the step in which a reduce call completes emits stateChange once, with
\* one normalized action per input event in input order, and at that moment,
\* when the listener runs, the datastore shows every mutation of the call's
\* batch; a reduce call that fails emits no stateChange.
C13_CommitThenStateChange ==
  [][\A p \in Reducers :
       /\ (pc[p] = "codec" /\ pc'[p] = "ret")
            => (/\ emits'[p] = <<"stateChange">>
                /\ rd'[p].acts = [i \in 1..Len(rd[p].events) |-> Normalized(rd[p].events[i])]
                /\ Shows(ds', rd'[p].batch))
       /\ (pc[p] \in {"get", "codec"} /\ pc'[p] = "fail") => emits'[p] = <<>>]_vars

\* C14: a handler call encodes, then dispatches (reduce runs to its end), then
\* emits localEvent, each step taken while the call holds the write lock; a
\* call whose encode and dispatch succeed emits localEvent once, after its
\* stateChange, and a call whose encode or dispatch fails emits no localEvent.
C14_LocalEventAfterDispatch ==
  [][\A p \in Handlers :
       /\ (InCritical(p) /\ pc'[p] # pc[p]) => holder = p
       /\ (pc[p] = "locked" /\ pc'[p] # "locked")
            => (pc'[p] \in {"get", "fail"} /\ emits'[p] = <<>>)
       /\ (pc[p] \in {"get", "codec"} /\ pc'[p] # pc[p])
            => (/\ pc'[p] \in {"get", "codec", "ret", "fail"}
                /\ emits'[p] = IF pc'[p] = "ret" THEN <<"stateChange">> ELSE <<>>)
       /\ (pc[p] = "ret" /\ pc'[p] # "ret")
            => (/\ pc'[p] = "idle"
                /\ result'[p] = "ok"
                /\ emits'[p] = <<"stateChange", "localEvent">>)
       /\ (pc[p] = "fail" /\ pc'[p] # "fail")
            => (/\ pc'[p] = "idle"
                /\ result'[p] \notin {None, "ok"}
                /\ emits'[p] = <<>>)]_vars

C14_Witness ==
  \E p, q \in Handlers :
    /\ result[p] = "ok"
    /\ emits[p] = <<"stateChange", "localEvent">>
    /\ result[q] \notin {None, "ok"}
    /\ emits[q] = <<>>

\* C20: in a sequence of single-action handler calls, the call that applied a
\* Delete ends with the entity's key absent from the datastore; a Create for an
\* entity whose last applied action is a Delete succeeds and puts the new
\* state; a Save on an entity whose last applied action is a Create or a Save
\* succeeds and puts a state.
C20_TombstoneAllowsRecreate ==
  [][\A p \in Handlers :
       /\ (plain /\ pc[p] = "ret" /\ pc'[p] = "idle" /\ rd[p].acts[1].type = "Delete")
            => ds'[KeyOf(rd[p].events[1])] = Absent
       /\ (/\ plain
           /\ pc[p] = "codec"
           /\ pc'[p] # "codec"
           /\ CurrentEvent(p).type = "Create"
           /\ applied[KeyOf(CurrentEvent(p))] = "Delete")
            => (/\ pc'[p] = "ret"
                /\ rd'[p].batch = <<PutOp(KeyOf(CurrentEvent(p)), CurrentEvent(p).patch)>>)
       /\ (/\ plain
           /\ pc[p] = "codec"
           /\ pc'[p] # "codec"
           /\ CurrentEvent(p).type = "Save"
           /\ applied[KeyOf(CurrentEvent(p))] \in {"Create", "Save"})
            => (/\ pc'[p] = "ret"
                /\ Len(rd'[p].batch) = 1
                /\ rd'[p].batch[1].op = "put"
                /\ rd'[p].batch[1].value # Absent)]_vars

\* C11: when start() calls are made one after the other, on one store or on a
\* store constructed after a restart over the same datastore, with no failing
\* datastore.get, every start() that has completed ended with the identifier
\* that the datastore holds under /store/threadid: the identifier is persisted
\* by the time start() returns and threadID() returns it ever after.
C11_ThreadIdentityStable ==
  (~overlap /\ life.faults = LifeBudget.faults) =>
     \A i \in 1..Len(started) : threadID(ds, "value") = started[i]

\* C12: with no failing datastore.get, a value stored under /store/threadid is
\* never replaced by a different one, whatever start() calls overlap; and a
\* start() whose threadID() finds a stored identifier returns with it, creates
\* no thread, draws no identifier and writes nothing.
C12_ThreadIdWrittenOnce ==
  [][(life'.faults = LifeBudget.faults) =>
       /\ ds[threadKey] # Absent => ds'[threadKey] = ds[threadKey]
       /\ \A t \in Starters :
            (st[t].pc = "probe" /\ st'[t].probe # None /\ ds[threadKey] # Absent)
              => (/\ st'[t].pc = "idle"
                  /\ st'[t].id = FromBytes(ds[threadKey])
                  /\ threads' = threads
                  /\ nextId' = nextId
                  /\ pending' = pending
                  /\ ds' = ds)]_vars

\* C15: a name that registerSchema registered has its raw schema stored under
\* /store/schema/<name>, and once the constructor's registerSchemas() of a
\* store constructed after a restart has finished, getCollection returns a
\* collection for every name registered before the restart.
C15_SchemasSurviveRestart ==
  /\ \A n \in Names : getCollection(n) # 0 => ds[SchemaKey(n)] = EncodedSchema
  /\ scanned => \A n \in registered : getCollection(n) # 0

\* C16: a datastore.get that fails with an error other than Not Found makes
\* the call that probed fail with it, in reduce and in threadID() as start()
\* calls it; Not Found leaves the entity state absent and the identifier
\* undefined.
C16_OnlyNotFoundSwallowed ==
  /\ \A p \in Reducers :
       /\ rd[p].got = "error" => (pc[p] = "fail" /\ rd[p].err = "Datastore Error")
       /\ rd[p].got = "notfound" => rd[p].old = Absent
  /\ \A t \in Starters :
       /\ st[t].probe = "error" => st[t].result = "raised"
       /\ st[t].probe = "notfound" => st[t].result # "raised"

\* C17: dispatch gives the whole batch, in the given order, to the subscribers
\* one after the other in registration order; it resolves only when every
\* registered subscriber has processed the batch; when a subscriber throws,
\* dispatch rejects with its error and what the subscribers before it have
\* processed stays processed.
C17_DispatchToAllInOrder ==
  [][/\ \A j \in 1..Len(disp.done) : disp.done[j] = reducers[j]
     /\ (disp.pc = "run" /\ disp'.pc = "run")
          => (/\ disp'.done = Append(disp.done, reducers[disp.i])
              /\ seen' = [seen EXCEPT ![reducers[disp.i]] = @ \o disp.events])
     /\ (disp.pc = "run" /\ disp'.pc = "fail") => seen' = seen
     /\ (disp.pc = "run" /\ disp'.pc = "idle")
          => (/\ dresult' = "ok"
              /\ disp.done = reducers
              /\ seen' = seen)
     /\ (disp.pc = "fail" /\ disp'.pc = "idle")
          => (/\ dresult' = "Reducer Error"
              /\ seen' = seen)]_vars

C17_Witness ==
  /\ dresult = "Reducer Error"
  /\ Len(reducers) = 2
  /\ disp.done = <<reducers[1]>>
  /\ Len(disp.events) = 2
  /\ disp.events[1] # disp.events[2]
  /\ seen[reducers[1]] = disp.events
  /\ seen[reducers[2]] = <<>>

\* C18: no step makes the expiration time of an address that is stored, and
\* stays stored, earlier than it was, whether the put names the address or is a
\* put with no addresses.
C18_TTLMonotonic ==
  [][\A a \in Addrs : (book[a] # 0 /\ book'[a] # 0) => book'[a] >= book[a]]_vars

\* the addresses of a list
AddrSet(addrs) == {addrs[j] : j \in 1..Len(addrs)}

\* C19: the newAddr notifications of a put call are one for each address that
\* was not stored and that the call's commit stores, and no other: none for an
\* address already stored, none when ttl <= 0, none for a put with no
\* addresses, and never two for one address.
C19_NewAddrExactlyOnce ==
  [][\A p \in Putters :
       (bp[p].pc # "idle" /\ bp'[p].pc = "idle")
         => (/\ AddrSet(notes'[p]) = {a \in Addrs : book[a] = 0 /\ book'[a] # 0}
             /\ Len(notes'[p]) = Cardinality(AddrSet(notes'[p]))
             /\ (bp[p].ttl <= 0 \/ bp[p].addrs = <<>>) => notes'[p] = <<>>)]_vars

\* one whole reduce call over events, every read served by store: the error it
\* ends with, the batch it has built and the normalized actions it has pushed
RECURSIVE ReduceAlone(_, _, _, _)
ReduceAlone(store, events, batch, acts) ==
  IF events = <<>> THEN [err |-> None, batch |-> batch, acts |-> acts]
  ELSE LET e == Head(events)
           old == store[KeyOf(e)]
           r == CodecReduce(old, e)
           sw == ReduceSwitch(batch, KeyOf(e), old, r)
       IN IF sw.err # None
          THEN [err |-> sw.err, batch |-> batch, acts |-> Append(acts, r.action)]
          ELSE ReduceAlone(store, Tail(events), sw.batch, Append(acts, r.action))

\* the events a call reduces: those encoded from a handler call's actions, or
\* those a direct reduce call was given
PathEvents(p) == IF p \in Handlers THEN CodecEncode(rd[p].actions) ELSE rd[p].events

\* C21: a handler call given actions and a direct reduce call given the events
\* encoded from them, each made alone over the same stored entities, read the
\* same contents, end with the same outcome, hand the datastore a batch that
\* leaves the same entity state and emit stateChange with the same actions;
\* the handler call then emits localEvent and the direct call emits nothing
\* more.
C21_SameReducerPath ==
  [][\A p \in Reducers :
       LET ref == ReduceAlone(rd[p].base, PathEvents(p), <<>>, <<>>)
       IN rd[p].base # NoBase =>
            /\ (pc[p] = "codec" /\ pc'[p] = "ret")
                 => (/\ [k \in EntityKeys |-> ds[k]] = rd[p].base
                     /\ ref.err = None
                     /\ rd'[p].acts = ref.acts
                     /\ ApplyBatch(rd[p].base, rd'[p].batch) = ApplyBatch(rd[p].base, ref.batch)
                     /\ pending' = <<rd'[p].batch>>
                     /\ emits'[p] = <<"stateChange">>)
            /\ (pc[p] = "codec" /\ pc'[p] = "fail")
                 => (/\ ref.err = rd'[p].err
                     /\ rd'[p].acts = ref.acts
                     /\ pending' = pending
                     /\ emits'[p] = <<>>)
            /\ (pc[p] = "ret" /\ pc'[p] = "idle")
                 => (/\ result'[p] = "ok"
                     /\ emits'[p] = IF p \in Handlers THEN <<"stateChange", "localEvent">>
                                    ELSE <<"stateChange">>)
            /\ (pc[p] = "fail" /\ pc'[p] = "idle" /\ rd[p].got # "error"
                /\ rd[p].err # "Encode Error")
                 => (result'[p] = ref.err /\ emits'[p] = <<>>)]_vars

C21_Witness ==
  /\ result["h1"] = "ok"
  /\ emits["h1"] = <<"stateChange", "localEvent">>
  /\ \E r \in Remotes :
       /\ pc[r] = "ret"
       /\ rd[r].base \notin {NoBase, NoRef}
       /\ Len(rd[r].events) > 1
       /\ emits[r] = <<"stateChange">>

\* C22: the listeners are detached only by close() while it holds the write
\* lock, so never while a handler call is between its lock acquisition and
\* its release: a handler call that got the lock with the listeners attached
\* emits its stateChange and its localEvent to them; once detached they stay
\* detached, a close() that has returned has detached them, and the
\* stateChange of every later reduce, called by handler or directly, reaches
\* no listener.
C22_CloseDetachesUnderLock ==
  [][/\ (listening /\ ~listening')
          => (/\ \E c \in Closers : pc[c] = "locked" /\ holder = c /\ pc'[c] = "idle"
              /\ \A p \in Handlers : ~InCritical(p))
     /\ \A p \in Handlers :
          /\ (InCritical(p) /\ listening) => listening'
          /\ (listening /\ pc[p] = "codec" /\ pc'[p] = "ret") => rd'[p].sc = "delivered"
          /\ (listening /\ pc[p] = "ret" /\ pc'[p] = "idle")
               => emits'[p] = <<"stateChange", "localEvent">>
     /\ ~listening => ~listening'
     /\ \A c \in Closers : result'[c] = "ok" => (~listening' /\ holder' # c)
     /\ \A p \in Reducers :
          (~listening /\ pc[p] = "codec" /\ pc'[p] = "ret") => rd'[p].sc = "dropped"]_vars

C22_Witness ==
  \E p \in Handlers, c \in Closers :
    /\ pc[p] = "ret"
    /\ rd[p].sc = "delivered"
    /\ pc[c] = "wait"
    /\ listening

\* ---------------------------------------------------------------- frame of reduce
\* a store used as start() asks (part_000:71: called after registering all
\* schemas and before any operation on them): registerSchema calls, then one
\* start(), then direct reduce calls, which may run before the datastore has
\* applied the thread identifier start() handed to it
FrameEvents == 2

FrameWorkload == [events |-> FrameEvents, registers |-> LifeRegisters, closes |-> 0, faults |-> 0]

InitFrame == InitWith({FrameWorkload})

NoStartYet == started = <<>> /\ \A t \in Starters : st[t].pc = "idle"

NextFrame ==
  \/ \E p \in Registrars, name \in Names, outcome \in RegisterOutcomes :
        NoStartYet /\ RegisterCall(p, name, outcome)
  \/ \E p \in Registrars : RegisterBody(p)
  \/ \E t \in Starters : NoStartYet /\ AllIdle /\ StartCall(t)
  \/ \E t \in Starters, out \in ProbeOutcomes : StartProbe(t, out)
  \/ \E t \in Starters : StartCreateThread(t)
  \/ \E t \in Starters : StartAddThread(t)
  \/ \E p \in Remotes, events \in Batches(EventInputs, budget.events) :
        started # <<>> /\ RemoteReduce(p, events)
  \/ \E p \in Reducers, out \in GetOutcomes : ReduceGet(p, out)
  \/ \E p \in Reducers : ReduceApply(p)
  \/ \E p \in Remotes : RemoteReturn(p)
  \/ CommitLand

SpecFrame == InitFrame /\ [][NextFrame]_vars

BatchKeys(batch) == {batch[j].key : j \in 1..Len(batch)}

EventKeys(events) == {KeyOf(events[j]) : j \in 1..Len(events)}

\* C23: no step of a reduce call changes the datastore, this.collections or
\* the schemas held; the only thing a call leaves behind is the batch it hands
\* to the datastore as it completes, whose keys are keys
\* /collection/<event.collection>/<event.entityID> of the call's events, and
\* the datastore applying a batch changes the keys of that batch only: every
\* other entity, the thread identifier and the schema keys are as before.
C23_ReduceFrame ==
  [][/\ \A p \in Reducers :
          (pc'[p] # pc[p] /\ (pc[p] \in {"get", "codec"} \/ p \in Remotes)) =>
            /\ ds' = ds
            /\ collections' = collections
            /\ ajvKeys' = ajvKeys
            /\ IF pc'[p] = "ret"
               THEN /\ pending' = Append(pending, rd'[p].batch)
                    /\ BatchKeys(rd'[p].batch) \subseteq EventKeys(rd[p].events)
               ELSE pending' = pending
     /\ (pending # <<>> /\ pending' = Tail(pending))
          => (/\ \A k \in AllKeys \ BatchKeys(Head(pending)) : ds'[k] = ds[k]
              /\ collections' = collections
              /\ ajvKeys' = ajvKeys)]_vars

C23_Witness ==
  \E p \in Remotes, k \in EntityKeys, n \in Names :
    /\ pc[p] = "ret"
    /\ rd[p].batch # <<>>
    /\ pending = <<>>
    /\ k \notin EventKeys(rd[p].events)
    /\ ds[k] # Absent
    /\ ds[threadKey] # Absent
    /\ collections[n] # 0
    /\ \A j \in BatchKeys(rd[p].batch) : ds[j] # rd[p].old

====
